---- MODULE Spec2Model ----
(***************************************************************************)
(* A model of src/cli/die_with_zero.py: the FinancialPlanner class, its    *)
(* schedule lookups, the year-by-year projection loop of _project_base     *)
(* and the die-with-zero retirement search of summary.                     *)
(*                                                                         *)
(* Python floats are modelled bit for bit: every +, -, * and / below is    *)
(* the IEEE 754 binary64 operation, rounded as the interpreter rounds it.  *)
(* An int the code mixes with floats (the 0 of year-0 savings, the 1 of    *)
(* 1 + rate, a milestone) is the float of the same value.                  *)
(*                                                                         *)
(* The builtin sum() depends on the interpreter the program runs on, which *)
(* the repository does not fix: up to CPython 3.11 it adds floats from     *)
(* left to right, from CPython 3.12 on it keeps a compensation term.  Both *)
(* are modelled, and a run is made on either.                              *)
(***************************************************************************)
EXTENDS Integers, Sequences, FiniteSets, TLC

VARIABLES pc, args, years, verbose, planner, frame, call, search,
          sum_compensated

vars == <<pc, args, years, verbose, planner, frame, call, search, sum_compensated>>

(***************************************************************************)
(* Bounds of the model.                                                    *)
(***************************************************************************)
\* the largest projection horizon (the `years` argument) that is explored
MaxYears == 3

(***************************************************************************)
(* Python floats: IEEE 754 binary64 with round-to-nearest, ties-to-even.   *)
(* A float is <<sg, e, hi, lo>>: sg is its sign (-1, 0, 1), and when it is *)
(* not zero its magnitude is m * 2^(e - 52) with the 53-bit significand    *)
(* m = hi * 2^28 + lo, 2^24 <= hi < 2^25, 0 <= lo < 2^28.  Zero is         *)
(* <<0, 0, 0, 0>> (the sign of a zero shows in no comparison).  The        *)
(* exponent is not bounded: infinities, NaN and subnormals are out of the  *)
(* range of the amounts explored.                                          *)
(***************************************************************************)
\* the weight of `hi`, and the base of the limbs a product is formed in
LoBase == 2^28
Limb == 2^14
HiMin == 2^24
HiMax == 2^25

FZero == <<0, 0, 0, 0>>

\* round to nearest, ties to even: g is the first bit dropped, st says
\* whether any later one is set
FRound(sg, e, hi, lo, g, st) ==
    IF ~(g = 1 /\ (st \/ lo % 2 = 1)) THEN <<sg, e, hi, lo>>
    ELSE IF lo + 1 < LoBase THEN <<sg, e, hi, lo + 1>>
    ELSE IF hi + 1 < HiMax THEN <<sg, e, hi + 1, 0>>
    ELSE <<sg, e + 1, HiMin, 0>>

\* |x| < |y|, for x and y that are not zero
FBelow(x, y) ==
    \/ x[2] < y[2]
    \/ x[2] = y[2] /\ x[3] < y[3]
    \/ x[2] = y[2] /\ x[3] = y[3] /\ x[4] < y[4]

\* x < y, x <= y
FLt(x, y) ==
    IF x[1] # y[1] THEN x[1] < y[1]
    ELSE IF x[1] = 0 THEN FALSE
    ELSE IF x[1] = 1 THEN FBelow(x, y)
    ELSE FBelow(y, x)
FLeq(x, y) == x = y \/ FLt(x, y)

FNeg(x) == <<-x[1], x[2], x[3], x[4]>>
FAbs(x) == <<x[1] * x[1], x[2], x[3], x[4]>>

\* the limbs of the significand hi * 2^28 + lo, the lowest first
FLimbs(hi, lo) == <<lo % Limb, lo \div Limb, hi % Limb, hi \div Limb>>

\* the limbs of the number whose columns are c (a column may be negative
\* or exceed a limb; the last one takes what is carried over)
RECURSIVE FCarry(_, _, _)
FCarryLimb(c, t, d) ==
    IF Len(d) + 1 = Len(c) THEN Append(d, t)
    ELSE FCarry(c, t \div Limb, Append(d, t % Limb))
FCarry(c, carry, d) == FCarryLimb(c, c[Len(d) + 1] + carry, d)

\* the 53 leading bits of the product d, which has 105 + k - 10 bits, rounded
FMulRound(sg, e, d, k) ==
    FRound(sg, e + k - 10,
           d[6] \div 2^k + d[7] * 2^(14 - k) + d[8] * 2^(28 - k),
           d[4] \div 2^k + d[5] * 2^(14 - k) + (d[6] % 2^k) * 2^(28 - k),
           (d[4] \div 2^(k - 1)) % 2,
           d[4] % 2^(k - 1) # 0 \/ d[3] # 0 \/ d[2] # 0 \/ d[1] # 0)

FMulLimbs(sg, e, d) == FMulRound(sg, e, d, IF d[8] >= 2^7 THEN 11 ELSE 10)

FMulColumns(a, b) ==
    <<a[1] * b[1],
      a[1] * b[2] + a[2] * b[1],
      a[1] * b[3] + a[2] * b[2] + a[3] * b[1],
      a[1] * b[4] + a[2] * b[3] + a[3] * b[2] + a[4] * b[1],
      a[2] * b[4] + a[3] * b[3] + a[4] * b[2],
      a[3] * b[4] + a[4] * b[3],
      a[4] * b[4],
      0>>

\* x * y
FMul(x, y) ==
    IF x[1] = 0 \/ y[1] = 0 THEN FZero
    ELSE FMulLimbs(x[1] * y[1], x[2] + y[2],
                   FCarry(FMulColumns(FLimbs(x[3], x[4]), FLimbs(y[3], y[4])),
                          0, <<>>))

\* r >= y and r - y, on limbs
FLimbsGeq(r, y) ==
    \/ r[4] > y[4]
    \/ r[4] = y[4] /\ r[3] > y[3]
    \/ r[4] = y[4] /\ r[3] = y[3] /\ r[2] > y[2]
    \/ r[4] = y[4] /\ r[3] = y[3] /\ r[2] = y[2] /\ r[1] >= y[1]
FLimbsSub(r, y) ==
    FCarry(<<r[1] - y[1], r[2] - y[2], r[3] - y[3], r[4] - y[4]>>, 0, <<>>)

\* one step of the long division by y in base 2^14: for a remainder r < y,
\* the digit q = (r * 2^14) \div y and the remainder r * 2^14 - q * y.  The
\* digit is estimated from the leading bits, from below, and then set right
RECURSIVE FDivFix(_, _, _)
FDivFix(q, r, y) ==
    IF FLimbsGeq(r, y) THEN FDivFix(q + 1, FLimbsSub(r, y), y) ELSE <<q, r>>

FDivRemainder(r, y, q) ==
    FDivFix(q, FCarry(<<0 - q * y[1], r[1] - q * y[2], r[2] - q * y[3],
                        r[3] + r[4] * Limb - q * y[4]>>, 0, <<>>), y)

FDivStep(r, y) ==
    FDivRemainder(r, y, (r[4] * 2^20 + r[3] * 2^6 + r[2] \div 2^8)
                            \div (y[4] * 2^6 + y[3] \div 2^8 + 1))

\* the next n digits of the quotient after the digits q, and the remainder
RECURSIVE FDivDigits(_, _, _)
FDivNext(s, y, q) == FDivDigits(s[2], y, Append(q, s[1]))
FDivDigits(r, y, q) ==
    IF Len(q) = 4 THEN <<q, r>> ELSE FDivNext(FDivStep(r, y), y, q)

\* the quotient is 1, then the four digits d[1], rounded
FDivRound(sg, e, d) ==
    FRound(sg, e,
           HiMin + d[1][1] * 2^10 + d[1][2] \div 2^4,
           (d[1][2] % 2^4) * 2^24 + d[1][3] * 2^10 + d[1][4] \div 2^4,
           (d[1][4] \div 2^3) % 2,
           d[1][4] % 2^3 # 0 \/ d[2] # <<0, 0, 0, 0>>)

\* x / y for significands n >= y (n is that of x, doubled if need be)
FDivLimbs(sg, e, n, y) == FDivRound(sg, e, FDivDigits(FLimbsSub(n, y), y, <<>>))

\* x / y, y # 0
FDiv(x, y) ==
    IF x[1] = 0 THEN FZero
    ELSE IF x[3] > y[3] \/ (x[3] = y[3] /\ x[4] >= y[4])
    THEN FDivLimbs(x[1] * y[1], x[2] - y[2],
                   FLimbs(x[3], x[4]), FLimbs(y[3], y[4]))
    ELSE FDivLimbs(x[1] * y[1], x[2] - y[2] - 1,
                   FLimbs(2 * x[3] + (2 * x[4]) \div LoBase, (2 * x[4]) % LoBase),
                   FLimbs(y[3], y[4]))

\* <<h, l>>, made odd when a set bit was lost
FJam(h, l, lost) == <<h, IF lost /\ l % 2 = 0 THEN l + 1 ELSE l>>

\* <<h, l>> shifted right by d bits
FShiftRight(h, l, d) ==
    IF d < 28 THEN FJam(h \div 2^d, l \div 2^d + (h % 2^d) * 2^(28 - d), l % 2^d # 0)
    ELSE IF d < 56 THEN FJam(0, h \div 2^(d - 28), h % 2^(d - 28) # 0 \/ l # 0)
    ELSE FJam(0, 0, TRUE)

\* <<h, l>> # 0 shifted left until it has 56 bits, and the shift n
RECURSIVE FNormalize(_, _, _)
FNormalize(h, l, n) ==
    IF h >= 2^27 THEN <<h, l, n>>
    ELSE IF h < 2^14
    THEN FNormalize(h * 2^13 + l \div 2^15, (l % 2^15) * 2^13, n + 13)
    ELSE FNormalize(h * 2 + l \div 2^27, (l % 2^27) * 2, n + 1)

\* the significand s, which has three more bits than 53, rounded
FAddRound(sg, e, s) ==
    FRound(sg, e, s[1] \div 8, s[2] \div 8 + (s[1] % 8) * 2^25,
           (s[2] \div 4) % 2, s[2] % 4 # 0)

FAddSum(a, h, l) ==
    IF h >= LoBase THEN FAddRound(a[1], a[2] + 1, FShiftRight(h, l, 1))
    ELSE FAddRound(a[1], a[2], <<h, l>>)

FAddNormal(a, s) == FAddRound(a[1], a[2] - s[3], s)

FAddDifference(a, h, l) ==
    IF h = 0 /\ l = 0 THEN FZero ELSE FAddNormal(a, FNormalize(h, l, 0))

\* a + b for |a| >= |b| > 0, on the significands <<ah, al>> of a and bs of
\* b, which have three more bits and are aligned
FAddAligned(a, b, ah, al, bs) ==
    IF a[1] = b[1]
    THEN FAddSum(a, ah + bs[1] + (al + bs[2]) \div LoBase, (al + bs[2]) % LoBase)
    ELSE FAddDifference(a, ah - bs[1] + (al - bs[2]) \div LoBase,
                        (al - bs[2]) % LoBase)

FAddOrdered(a, b) ==
    FAddAligned(a, b, a[3] * 8 + a[4] \div 2^25, (a[4] % 2^25) * 8,
                FShiftRight(b[3] * 8 + b[4] \div 2^25, (b[4] % 2^25) * 8,
                            a[2] - b[2]))

\* x + y
FAdd(x, y) ==
    IF x[1] = 0 THEN y
    ELSE IF y[1] = 0 THEN x
    ELSE IF FBelow(x, y) THEN FAddOrdered(y, x)
    ELSE FAddOrdered(x, y)

\* x - y
FSub(x, y) == FAdd(x, FNeg(y))

\* the float of an integer n, |n| < 2^25
RECURSIVE FBits(_)
FBits(n) == IF n < 2 THEN 0 ELSE 1 + FBits(n \div 2)

FFromBits(sg, m, bits) == <<sg, bits, m * 2^(24 - bits), 0>>

Fl(n) ==
    IF n = 0 THEN FZero
    ELSE IF n < 0 THEN FFromBits(-1, -n, FBits(-n))
    ELSE FFromBits(1, n, FBits(n))

\* the float nearest to n / d, which is what the literal of that decimal
\* fraction denotes
FQ(n, d) == FDiv(Fl(n), Fl(d))

\* a dict keeps its keys in the order they were inserted, which a function
\* does not: where the code goes through a dict, the model goes through the
\* sequence of the dict's keys in that order.
\* sum(d[k] for k in keys): the values are added to acc one by one, from
\* left to right
RECURSIVE SumFrom(_, _, _)
SumFrom(d, keys, acc) ==
    IF keys = <<>> THEN acc
    ELSE SumFrom(d, Tail(keys), FAdd(acc, d[Head(keys)]))

\* sum() on floats up to CPython 3.11: the int 0 it starts from and the
\* values are added from left to right
SumLeftToRight(d, keys) == SumFrom(d, keys, Fl(0))

\* sum() on floats from CPython 3.12 on, which is Neumaier's sum: f is the
\* running sum and c the compensation, the sum of what the additions to f
\* rounded away.  For the next value x and t = f + x that is (f - t) + x
\* when |f| >= |x| and (x - t) + f otherwise.  The compensation is added at
\* the end, unless it is 0
RECURSIVE SumNeumaier(_, _, _, _)
SumNeumaierStep(d, keys, c, larger, smaller, t) ==
    SumNeumaier(d, keys, t, FAdd(c, FAdd(FSub(larger, t), smaller)))
SumNeumaier(d, keys, f, c) ==
    IF keys = <<>> THEN (IF c = FZero THEN f ELSE FAdd(f, c))
    ELSE SumNeumaierStep(d, Tail(keys), c,
             IF FLt(FAbs(f), FAbs(d[Head(keys)])) THEN d[Head(keys)] ELSE f,
             IF FLt(FAbs(f), FAbs(d[Head(keys)])) THEN f ELSE d[Head(keys)],
             FAdd(f, d[Head(keys)]))

\* the first value is added to the int 0 sum() starts from, which gives the
\* value itself, and the compensated sum goes on from there
SumCompensated(d, keys) ==
    IF keys = <<>> THEN Fl(0)
    ELSE SumNeumaier(d, Tail(keys), d[Head(keys)], Fl(0))

\* sum(d.values()) of the dict with the values d, whose keys were inserted
\* in the order `keys`, on the interpreter of this run
SumValues(d, keys) ==
    IF sum_compensated THEN SumCompensated(d, keys) ELSE SumLeftToRight(d, keys)

\* the greatest / the smallest element of a non-empty finite set of integers
MaxOf(S) == CHOOSE m \in S : \A k \in S : k <= m
MinOf(S) == CHOOSE m \in S : \A k \in S : m <= k

(***************************************************************************)
(* Python values.                                                          *)
(***************************************************************************)
\* None, where an integer year is expected (milestones_reached[ms] = None)
None == -1

NoneArg == [kind |-> "None"]
FloatArg(q) == [kind |-> "float", value |-> q]
DictArg(m) == [kind |-> "dict", map |-> m]
ListArg(s) == [kind |-> "list", items |-> s]

EmptyDict == <<>>

\* sorted(list): insertion sort, duplicates kept
RECURSIVE Sorted(_)
Sorted(s) ==
    IF s = <<>> THEN <<>>
    ELSE LET i == CHOOSE i \in 1..Len(s) : \A j \in 1..Len(s) : s[i] <= s[j]
             rest == [k \in 1..(Len(s) - 1) |-> IF k < i THEN s[k] ELSE s[k + 1]]
         IN  <<s[i]>> \o Sorted(rest)

SeqRange(s) == {s[i] : i \in 1..Len(s)}

(***************************************************************************)
(* FinancialPlanner.__init__                                               *)
(***************************************************************************)
FinancialPlanner(a) ==
    [initial_gross_income |-> a.annual_gross_income,
     initial_expenses     |-> a.annual_expenses,
     inflation_rate       |-> a.inflation_rate,
     income_growth_rate   |-> a.income_growth_rate,
     tax_rate             |-> a.tax_rate,
     asset_allocation     |-> a.asset_allocation,
     asset_keys           |-> a.asset_keys,
     additional_expenses  |-> IF a.additional_expenses.kind = "dict"
                              THEN a.additional_expenses.map ELSE EmptyDict,
     milestones           |-> IF a.milestones.kind = "list"
                              THEN Sorted(a.milestones.items) ELSE <<>>,
     initial_net_worth    |-> SumValues([c \in DOMAIN a.asset_allocation |->
                                            a.asset_allocation[c].amount],
                                        a.asset_keys)]

(***************************************************************************)
(* The schedule lookups.  A result is [raised |-> FALSE, value |-> v], or  *)
(* [raised |-> TRUE, error |-> e] when the Python code raises.             *)
(***************************************************************************)
Return(v) == [raised |-> FALSE, value |-> v]
Raise(e)  == [raised |-> TRUE, error |-> e]

\* a plausible slip: the earliest applicable key instead of the most recent
get_tax_rate_for_year_first(slf, year) ==
    IF slf.tax_rate.kind = "float" THEN Return(slf.tax_rate.value)
    ELSE LET m == slf.tax_rate.map
             applicable_years == {y \in DOMAIN m : y <= year}
         IN  IF applicable_years # {} THEN Return(m[MinOf(applicable_years)])
             ELSE IF DOMAIN m = {} THEN Raise("ValueError")
             ELSE Return(m[MinOf(DOMAIN m)])

get_tax_rate_for_year(slf, year) ==
    IF slf.tax_rate.kind = "float" THEN Return(slf.tax_rate.value)
    ELSE LET m == slf.tax_rate.map
             applicable_years == {y \in DOMAIN m : y <= year}
         IN  IF applicable_years # {} THEN Return(m[MaxOf(applicable_years)])
             \* min() of an empty sequence raises ValueError
             ELSE IF DOMAIN m = {} THEN Raise("ValueError")
             ELSE Return(m[MinOf(DOMAIN m)])

\* a plausible slip: the fallback of the tax lookup copied to the expenses
get_additional_expense_for_year_fallback(slf, year) ==
    LET m == slf.additional_expenses
        applicable_years == {y \in DOMAIN m : y <= year}
    IN  IF DOMAIN m = {} THEN <<Fl(0), "">>
        ELSE IF applicable_years # {}
        THEN <<m[MaxOf(applicable_years)].amount,
               m[MaxOf(applicable_years)].description>>
        ELSE <<m[MinOf(DOMAIN m)].amount, m[MinOf(DOMAIN m)].description>>

get_additional_expense_for_year(slf, year) ==
    LET m == slf.additional_expenses
        applicable_years == {y \in DOMAIN m : y <= year}
    IN  IF DOMAIN m = {} THEN <<Fl(0), "">>
        ELSE IF applicable_years # {}
        THEN <<m[MaxOf(applicable_years)].amount,
               m[MaxOf(applicable_years)].description>>
        ELSE <<Fl(0), "">>

(***************************************************************************)
(* FinancialPlanner._project_base                                          *)
(***************************************************************************)
\* self.asset_allocation[k].get("liquid", True)
IsLiquid(slf, k) ==
    IF "liquid" \in DOMAIN slf.asset_allocation[k]
    THEN slf.asset_allocation[k].liquid ELSE TRUE

\* the keys of liquid_assets, lines 204-208: the comprehension goes through
\* assets, whose keys are those of self.asset_allocation in their order
\* (line 119), and keeps the liquid ones
LiquidKeys(slf) == SelectSeq(slf.asset_keys, LAMBDA k : IsLiquid(slf, k))

\* the locals of _project_base before the loop is entered; `year` is the
\* next value the loop variable takes
InitialFrame(slf) ==
    [year                 |-> 0,
     current_gross_income |-> slf.initial_gross_income,
     current_expenses     |-> slf.initial_expenses,
     assets               |-> [c \in DOMAIN slf.asset_allocation |->
                                  slf.asset_allocation[c].amount],
     milestones_reached   |-> [ms \in SeqRange(slf.milestones) |-> None],
     results              |-> <<>>,
     raised               |-> ""]

\* `year in income_override`
Overridden(income_override, year) ==
    /\ income_override.kind = "dict"
    /\ year \in DOMAIN income_override.map

\* a plausible slip: the savings shared out over every category, liquid or not
SavingsFlow_all(slf, assets, annual_savings) ==
    LET total == SumValues(assets, slf.asset_keys)
        share(c) == FMul(FAbs(annual_savings), FDiv(assets[c], total))
        moved == annual_savings # Fl(0) /\ FLt(Fl(0), total)
    IN  [assets |-> [c \in DOMAIN assets |->
                        IF moved THEN FAdd(assets[c], FMul(annual_savings,
                                            FDiv(assets[c], total)))
                        ELSE assets[c]],
         gains  |-> [c \in DOMAIN assets |->
                        IF moved /\ FLt(Fl(0), annual_savings) THEN share(c) ELSE Fl(0)],
         losses |-> [c \in DOMAIN assets |->
                        IF moved /\ FLt(annual_savings, Fl(0)) THEN share(c) ELSE Fl(0)]]

\* a plausible slip: no guard on the total liquid value; a total of 0 then
\* leaves the flow out of the liquid categories' books but charges it anyway
SavingsFlow_unguarded(slf, assets, annual_savings) ==
    LET liquid == {k \in DOMAIN assets : IsLiquid(slf, k)}
        n == Cardinality(liquid)
        total_liquid == SumValues(assets, LiquidKeys(slf))
        part(c) == IF total_liquid = Fl(0) THEN FQ(1, n)
                   ELSE FDiv(assets[c], total_liquid)
        flow(c) == IF c \in liquid THEN FMul(annual_savings, part(c)) ELSE Fl(0)
    IN  [assets |-> [c \in DOMAIN assets |-> FAdd(assets[c], flow(c))],
         gains  |-> [c \in DOMAIN assets |->
                        IF FLt(Fl(0), flow(c)) THEN flow(c) ELSE Fl(0)],
         losses |-> [c \in DOMAIN assets |->
                        IF FLt(flow(c), Fl(0)) THEN FNeg(flow(c)) ELSE Fl(0)]]

\* lines 197-232: the savings are shared out over (or taken from) the liquid
\* categories in proportion to their amounts; the result holds the assets
\* after the flow and the gains and losses booked so far
SavingsFlow(slf, assets, annual_savings) ==
    LET liquid == {k \in DOMAIN assets : IsLiquid(slf, k)}
        total_liquid == SumValues(assets, LiquidKeys(slf))
        proportion(c) == FDiv(assets[c], total_liquid)
        contribution(c) == FMul(annual_savings, proportion(c))
        liquidation(c) == FMul(FAbs(annual_savings), proportion(c))
        zero == [c \in DOMAIN assets |-> Fl(0)]
    IN  IF FLt(Fl(0), annual_savings) /\ FLt(Fl(0), total_liquid)
        THEN [assets |-> [c \in DOMAIN assets |->
                             IF c \in liquid THEN FAdd(assets[c], contribution(c))
                             ELSE assets[c]],
              gains  |-> [c \in DOMAIN assets |->
                             IF c \in liquid THEN contribution(c) ELSE Fl(0)],
              losses |-> zero]
        ELSE IF FLt(annual_savings, Fl(0)) /\ FLt(Fl(0), total_liquid)
        THEN [assets |-> [c \in DOMAIN assets |->
                             IF c \in liquid THEN FSub(assets[c], liquidation(c))
                             ELSE assets[c]],
              gains  |-> zero,
              losses |-> [c \in DOMAIN assets |->
                             IF c \in liquid THEN liquidation(c) ELSE Fl(0)]]
        ELSE [assets |-> assets, gains |-> zero, losses |-> zero]

\* lines 234-239: every category appreciates at its own rate, on the amount
\* it has after the savings flow
Appreciate(slf, flow) ==
    LET rate(c) == slf.asset_allocation[c].rate
    IN  [assets |-> [c \in DOMAIN flow.assets |->
                        FMul(flow.assets[c], FAdd(Fl(1), rate(c)))],
         gains  |-> [c \in DOMAIN flow.assets |->
                        FAdd(flow.gains[c], FMul(flow.assets[c], rate(c)))],
         losses |-> flow.losses]

\* a plausible slip: the savings of year 0 are not forced to 0
AnnualSavings_year0(year, current_net_income, total_expenses) ==
    FSub(current_net_income, total_expenses)

\* line 139
AnnualSavings(year, current_net_income, total_expenses) ==
    IF year > 0 THEN FSub(current_net_income, total_expenses) ELSE Fl(0)

\* a plausible slip: a milestone is kept only while the net worth is above it
MilestonesUpdate_forgetful(slf, reached, total_net_worth, year) ==
    [ms \in DOMAIN reached |->
        IF FLeq(Fl(ms), total_net_worth)
        THEN (IF reached[ms] = None THEN year ELSE reached[ms])
        ELSE None]

\* lines 141-147
MilestonesUpdate(slf, reached, total_net_worth, year) ==
    [ms \in DOMAIN reached |->
        IF reached[ms] = None /\ FLeq(Fl(ms), total_net_worth)
        THEN year ELSE reached[ms]]

\* a plausible slip: the gain/loss columns are set up in year 0 as well
GainLossColumns_always(verb, year, assets) ==
    IF verb
    THEN [Gain      |-> [c \in DOMAIN assets |-> Fl(0)],
          Loss      |-> [c \in DOMAIN assets |-> Fl(0)],
          NetChange |-> [c \in DOMAIN assets |-> Fl(0)]]
    ELSE <<>>

\* lines 165-171: the columns a row gets when it is built
GainLossColumns(verb, year, assets) ==
    IF verb /\ year > 0
    THEN [Gain      |-> [c \in DOMAIN assets |-> Fl(0)],
          Loss      |-> [c \in DOMAIN assets |-> Fl(0)],
          NetChange |-> [c \in DOMAIN assets |-> Fl(0)]]
    ELSE <<>>

\* lines 241-249: results[-1] gets the gains and losses of the transition
BackFill(verb, row, moved) ==
    IF verb
    THEN [Gain      |-> moved.gains,
          Loss      |-> moved.losses,
          NetChange |-> [c \in DOMAIN moved.assets |->
                            FSub(moved.gains[c], moved.losses[c])]] @@ row
    ELSE row

\* lines 175-184: the milestones still unreached, in the order of
\* self.milestones ("All reached!" is the empty list); the column exists
\* only when milestones are configured
UnrealizedColumn(slf, reached) ==
    IF slf.milestones # <<>>
    THEN [UnrealizedMilestones |->
             SelectSeq(slf.milestones, LAMBDA m : reached[m] = None)]
    ELSE <<>>

\* one iteration of `for year in range(years + 1)`, lines 125-249
LoopBody(slf, f, yrs, verb, income_override) ==
    LET year == f.year
        current_gross_income ==
            IF Overridden(income_override, year)
            THEN income_override.map[year] ELSE f.current_gross_income
        tax == get_tax_rate_for_year(slf, year)
        tax_rate == tax.value
        current_net_income == FMul(current_gross_income, FSub(Fl(1), tax_rate))
        additional_expense == get_additional_expense_for_year(slf, year)[1]
        total_expenses == FAdd(f.current_expenses, additional_expense)
        total_net_worth == SumValues(f.assets, slf.asset_keys)
        annual_savings == AnnualSavings(year, current_net_income, total_expenses)
        reached == MilestonesUpdate(slf, f.milestones_reached, total_net_worth, year)
        year_data ==
            [Year               |-> year,
             GrossIncome        |-> current_gross_income,
             TaxRate            |-> tax_rate,
             NetIncome          |-> current_net_income,
             BaseExpenses       |-> f.current_expenses,
             AdditionalExpenses |-> additional_expense,
             TotalExpenses      |-> total_expenses,
             AnnualSavings      |-> annual_savings,
             Assets             |-> f.assets,
             TotalNetWorth      |-> total_net_worth]
            @@ GainLossColumns(verb, year, f.assets)
            @@ UnrealizedColumn(slf, reached)
        moved == Appreciate(slf, SavingsFlow(slf, f.assets, annual_savings))
    IN  IF tax.raised
        THEN [f EXCEPT !.current_gross_income = current_gross_income,
                       !.raised = tax.error]
        ELSE IF year < yrs
        THEN [year                 |-> year + 1,
              current_gross_income |->
                  IF ~Overridden(income_override, year + 1)
                  THEN FMul(current_gross_income, FAdd(Fl(1), slf.income_growth_rate))
                  ELSE current_gross_income,
              current_expenses     |-> FMul(f.current_expenses,
                                            FAdd(Fl(1), slf.inflation_rate)),
              assets               |-> moved.assets,
              milestones_reached   |-> reached,
              results              |-> Append(f.results, BackFill(verb, year_data, moved)),
              raised               |-> ""]
        ELSE [f EXCEPT !.year = year + 1,
                       !.current_gross_income = current_gross_income,
                       !.milestones_reached = reached,
                       !.results = Append(f.results, year_data)]

\* the loop, run from frame f to its end (or to the first exception)
RECURSIVE RunLoop(_, _, _, _, _)
RunLoop(slf, f, yrs, verb, income_override) ==
    IF f.year > yrs \/ f.raised # "" THEN f
    ELSE RunLoop(slf, LoopBody(slf, f, yrs, verb, income_override),
                 yrs, verb, income_override)

\* _project_base(years, verbose, income_override): its final frame, whose
\* `results` are the rows of the returned DataFrame
project_base(slf, yrs, verb, income_override) ==
    RunLoop(slf, InitialFrame(slf), yrs, verb, income_override)

\* project(years, verbose), lines 253-264
project(slf, yrs, verb) == project_base(slf, yrs, verb, NoneArg)

(***************************************************************************)
(* FinancialPlanner._project_with_zero_income                              *)
(***************************************************************************)
\* current_income after the iterations 0..year of the loop at lines 283-289
RECURSIVE OrganicIncome(_, _)
OrganicIncome(slf, year) ==
    IF year = 0 THEN slf.initial_gross_income
    ELSE FMul(OrganicIncome(slf, year - 1), FAdd(Fl(1), slf.income_growth_rate))

project_with_zero_income(slf, yrs, start_year) ==
    project_base(slf, yrs, FALSE,
        DictArg([year \in 0..yrs |->
                    IF year < start_year THEN OrganicIncome(slf, year) ELSE Fl(0)]))

\* df.iloc[-1]["Total Net Worth"]
FinalNetWorth(f) == f.results[Len(f.results)].TotalNetWorth


(***************************************************************************)
(* The arguments the model explores.                                       *)
(***************************************************************************)
Zero == Fl(0)
Half == FQ(1, 2)

PlannerArgs(income, expenses, inflation, growth, tax, allocation, additional, ms) ==
    [annual_gross_income |-> income,
     annual_expenses     |-> expenses,
     inflation_rate      |-> inflation,
     income_growth_rate  |-> growth,
     tax_rate            |-> tax,
     asset_allocation    |-> allocation.details,
     asset_keys          |-> allocation.keys,
     additional_expenses |-> additional,
     milestones          |-> ms]

\* the asset_allocation dict {k1: d1, k2: d2, ...}: its keys in the order
\* they are written, and the details of each
Allocation(keys, details) == [keys |-> keys, details |-> details]

Expense(amount, description) == [amount |-> amount, description |-> description]

\* category "A" states its liquidity; category "B", when there is one, is
\* either non-liquid or leaves the 'liquid' key out
CategoriesA ==
    [amount : {Fl(0), Fl(4)}, rate : {Zero, Half}, liquid : BOOLEAN]
CategoriesB ==
    [amount : {Fl(0), Fl(6)}, rate : {Zero, FNeg(Half)}, liquid : {FALSE}]
        \cup [amount : {Fl(0), Fl(6)}, rate : {Zero, FNeg(Half)}]

Allocations ==
    {Allocation(<<"A">>, [A |-> a]) : a \in CategoriesA}
        \cup {Allocation(<<"A", "B">>, [A |-> a, B |-> b]) :
                 a \in CategoriesA, b \in CategoriesB}

FewAllocations ==
    {Allocation(<<"A">>, [A |-> [amount |-> Fl(4), rate |-> Half, liquid |-> TRUE]]),
     Allocation(<<"A", "B">>,
                [A |-> [amount |-> Fl(4), rate |-> Zero, liquid |-> TRUE],
                 B |-> [amount |-> Fl(6), rate |-> FNeg(Half), liquid |-> FALSE]])}

TaxSchedules ==
    {FloatArg(Zero),
     DictArg((0 :> Zero) @@ (2 :> Half)),
     DictArg(1 :> Half),
     DictArg(EmptyDict)}

ExpenseSchedules ==
    {NoneArg,
     DictArg(EmptyDict),
     DictArg(1 :> Expense(Fl(1), "kid")),
     DictArg((0 :> Expense(Fl(2), "kid")) @@ (2 :> Expense(Fl(0), "none")))}

MilestoneLists ==
    {NoneArg, ListArg(<<>>), ListArg(<<5>>), ListArg(<<12, 5>>), ListArg(<<5, 5>>)}

\* the end-to-end example of the documentation
EndToEndArgs ==
    PlannerArgs(Fl(80000), Fl(40000), Zero, Zero, FloatArg(Zero),
                Allocation(<<"A">>, [A |-> [amount |-> Fl(100000), rate |-> Zero,
                                            liquid |-> TRUE]]),
                NoneArg, NoneArg)

\* every allocation, under flat income and expenses
FlowArgs ==
    {PlannerArgs(i, e, Zero, Zero, FloatArg(t), al, NoneArg, NoneArg) :
        i \in {Fl(0), Fl(6)}, e \in {Fl(2), Fl(8)}, t \in {Zero, Half},
        al \in Allocations}

\* every schedule, growth rate and milestone list, over two allocations
ScheduleArgs ==
    {PlannerArgs(Fl(6), e, inf, g, t, al, ad, ms) :
        e \in {Fl(2), Fl(8)}, inf \in {Zero, Half}, g \in {Zero, Half},
        t \in TaxSchedules, al \in FewAllocations, ad \in ExpenseSchedules,
        ms \in MilestoneLists}

\* amounts whose shares, 1/3 and 2/3, are no binary fractions, under rates
\* that are none either
ThirdsAllocations ==
    {Allocation(<<"A", "B">>,
                [A |-> [amount |-> Fl(1), rate |-> Zero, liquid |-> TRUE],
                 B |-> [amount |-> Fl(2), rate |-> Zero]]),
     Allocation(<<"A", "B", "C">>,
                [A |-> [amount |-> Fl(1), rate |-> Zero, liquid |-> TRUE],
                 B |-> [amount |-> Fl(2), rate |-> Zero],
                 C |-> [amount |-> FQ(1, 10), rate |-> Zero, liquid |-> FALSE]])}

\* amounts whose sum depends on the order they are added in and on the way
\* sum() adds them: from left to right 0.2 + 0.3 + 0.1 is 0.6 and
\* 0.3 + 0.1 + 0.2 is 0.6000000000000001
UnsortedAllocation ==
    Allocation(<<"C", "A", "B">>,
               [C |-> [amount |-> FQ(1, 5), rate |-> Zero, liquid |-> TRUE],
                A |-> [amount |-> FQ(3, 10), rate |-> Zero],
                B |-> [amount |-> FQ(1, 10), rate |-> Zero, liquid |-> TRUE]])

RoundingArgs ==
    {PlannerArgs(Fl(6), e, inf, Zero, FloatArg(t), al, NoneArg, ms) :
        e \in {Fl(2), Fl(8)}, inf \in {Zero, FQ(1, 10)}, t \in {Zero, FQ(3, 10)},
        al \in ThirdsAllocations \cup {UnsortedAllocation},
        ms \in {ListArg(<<7>>), ListArg(<<7, 3, 11>>)}}

ProjectionArgs == FlowArgs \cup ScheduleArgs \cup RoundingArgs \cup {EndToEndArgs}

NoPlanner == [tax_rate |-> NoneArg]
NoFrame == [year |-> 0, results |-> <<>>, raised |-> ""]
NoCall == [fn |-> "", year |-> 0]
NoSearch == [best_year |-> 0]

(***************************************************************************)
(* The projection: planner = FinancialPlanner(...), planner.project(...)   *)
(***************************************************************************)
Init ==
    /\ pc = "new"
    /\ args \in ProjectionArgs
    /\ years \in 0..MaxYears
    /\ verbose \in BOOLEAN
    /\ planner = NoPlanner
    /\ frame = NoFrame
    /\ call = NoCall
    /\ search = NoSearch
    /\ sum_compensated \in BOOLEAN

\* __init__, lines 56-66: nothing is validated
Construct ==
    /\ pc = "new"
    /\ planner' = FinancialPlanner(args)
    /\ pc' = "constructed"
    /\ UNCHANGED <<args, years, verbose, frame, call, search, sum_compensated>>

\* project -> _project_base, lines 114-122
ProjectCall ==
    /\ pc = "constructed"
    /\ frame' = InitialFrame(planner)
    /\ pc' = "loop"
    /\ UNCHANGED <<args, years, verbose, planner, call, search, sum_compensated>>

\* one iteration of the loop of _project_base, lines 124-249
ProjectYear ==
    /\ pc = "loop"
    /\ frame.year <= years
    /\ frame' = LoopBody(planner, frame, years, verbose, NoneArg)
    /\ pc' = IF frame'.raised # "" THEN "raised" ELSE "loop"
    /\ UNCHANGED <<args, years, verbose, planner, call, search, sum_compensated>>

\* line 251
ProjectReturn ==
    /\ pc = "loop"
    /\ frame.year > years
    /\ pc' = "returned"
    /\ UNCHANGED <<args, years, verbose, planner, frame, call, search, sum_compensated>>

Next == Construct \/ ProjectCall \/ ProjectYear \/ ProjectReturn

Spec == Init /\ [][Next]_vars


(***************************************************************************)
(* Claims about the projection, checked under Spec.                        *)
(***************************************************************************)
Rows == frame.results
Categories == DOMAIN planner.asset_allocation
Rate(c) == planner.asset_allocation[c].rate
LiquidCategories == {c \in Categories : IsLiquid(planner, c)}
\* the total liquid value at the start of the transition out of row i
TotalLiquid(i) == SumValues(Rows[i].Assets, LiquidKeys(planner))
\* the rows i that have a transition to a next row
Transitions == {i \in 1..Len(Rows) : i + 1 <= Len(Rows)}
Projecting == pc \in {"loop", "returned"}

\* the configurations C1 is about: one liquid category of rate 0, a constant
\* tax rate of 0, no inflation, no income growth, no additional expenses
SingleFlatAsset ==
    /\ DOMAIN args.asset_allocation = {"A"}
    /\ args.asset_allocation.A.rate = Zero
    /\ IsLiquid(planner, "A")
    /\ args.tax_rate = FloatArg(Zero)
    /\ args.inflation_rate = Zero
    /\ args.income_growth_rate = Zero
    /\ args.additional_expenses = NoneArg

\* C1 as stated: after a projection of 1 year from such a configuration the
\* year-1 row has net income = gross income, savings = income - expenses,
\* and asset amount = total net worth = initial amount + those savings.
C1_AsStated ==
    (pc = "returned" /\ years = 1 /\ SingleFlatAsset) =>
        LET row == Rows[2]
            savings == FSub(args.annual_gross_income, args.annual_expenses)
        IN  /\ row.NetIncome = args.annual_gross_income
            /\ row.AnnualSavings = savings
            /\ row.Assets.A = FAdd(args.asset_allocation.A.amount, savings)
            /\ row.TotalNetWorth = FAdd(args.asset_allocation.A.amount, savings)

\* C1 (amended): after a projection of 1 year from such a configuration the
\* year-1 row has net income = gross income, total expenses = expenses,
\* savings = income - expenses, and asset amount = total net worth = the
\* initial amount: the savings of year 1 are shown in the row but are not
\* yet in the assets, and year 0 contributes no savings.
C1_YearOneRow ==
    (pc = "returned" /\ years = 1 /\ SingleFlatAsset) =>
        LET row == Rows[2]
        IN  /\ Len(Rows) = 2
            /\ row.Year = 1
            /\ row.GrossIncome = args.annual_gross_income
            /\ row.NetIncome = args.annual_gross_income
            /\ row.TotalExpenses = args.annual_expenses
            /\ row.AnnualSavings =
                   FSub(args.annual_gross_income, args.annual_expenses)
            /\ row.Assets.A = args.asset_allocation.A.amount
            /\ row.TotalNetWorth = args.asset_allocation.A.amount

\* the documentation's example has run: savings 40000, asset 100000
C1_Witness ==
    /\ pc = "returned" /\ years = 1 /\ args = EndToEndArgs
    /\ Rows[2].NetIncome = Fl(80000)
    /\ Rows[2].AnnualSavings = Fl(40000)
    /\ Rows[2].Assets.A = Fl(100000)
    /\ Rows[2].TotalNetWorth = Fl(100000)

\* C6: in one projection run, a milestone is reported reached from the
\* first row whose total net worth is >= its threshold, and no later row
\* reports it unreached again, whatever the net worth does afterwards.
C6_MilestoneMonotonic ==
    (Projecting /\ planner.milestones # <<>>) =>
        \A j \in 1..Len(Rows) :
            LET unreached(i) == SeqRange(Rows[i].UnrealizedMilestones)
            IN  /\ \A m \in SeqRange(planner.milestones) :
                       m \in unreached(j) <=>
                           \A k \in 1..j : FLt(Rows[k].TotalNetWorth, Fl(m))
                /\ \A i \in 1..j : unreached(j) \subseteq unreached(i)

\* a milestone was reached, and a later row, whose net worth is below the
\* threshold again, still reports it reached
C6_Witness ==
    /\ pc = "returned" /\ planner.milestones # <<>>
    /\ \E i, j \in 1..Len(Rows), m \in SeqRange(planner.milestones) :
           /\ i > 1 /\ i < j
           /\ m \in SeqRange(Rows[i - 1].UnrealizedMilestones)
           /\ m \notin SeqRange(Rows[i].UnrealizedMilestones)
           /\ FLt(Rows[j].TotalNetWorth, Fl(m))
           /\ m \notin SeqRange(Rows[j].UnrealizedMilestones)

\* C7: in a transition whose total liquid value is 0, non-zero savings of
\* either sign raise nothing and move nothing: every category's next amount
\* is its amount times (1 + rate), and so is the next total net worth.
C7_ZeroLiquidNoFlow ==
    Projecting =>
        \A i \in Transitions :
            (TotalLiquid(i) = Fl(0) /\ Rows[i].AnnualSavings # Fl(0)) =>
                /\ frame.raised = ""
                /\ \A c \in Categories :
                       Rows[i + 1].Assets[c] =
                           FMul(Rows[i].Assets[c], FAdd(Fl(1), Rate(c)))
                /\ Rows[i + 1].TotalNetWorth =
                       SumValues([c \in Categories |->
                           FMul(Rows[i].Assets[c], FAdd(Fl(1), Rate(c)))],
                                 planner.asset_keys)

\* a finished run with a transition in which the liquid categories are
\* worth 0, a non-liquid one is worth something and the savings are not 0
C7_Witness ==
    /\ pc = "returned"
    /\ \E i \in Transitions :
           /\ TotalLiquid(i) = Fl(0)
           /\ LiquidCategories # {}
           /\ Categories \ LiquidCategories # {}
           /\ Rows[i].AnnualSavings # Fl(0)
           /\ Rows[i].TotalNetWorth # Fl(0)

\* the planner's tax schedule is a constant or a non-empty mapping
TaxScheduleWellFormed ==
    planner.tax_rate.kind = "dict" => DOMAIN planner.tax_rate.map # {}

\* C8 as stated: an empty tax mapping is rejected at construction, so no
\* constructed planner holds one and none reaches the projection loop.
C8_RejectedAtConstruction ==
    pc \in {"constructed", "loop", "raised", "returned"} => TaxScheduleWellFormed

\* C9 as stated: with verbose true every row, for every horizon >= 0,
\* carries gain, loss and net change for every category; they are 0 in the
\* last row and net change = gain - loss in the others.
C9_AsStated ==
    (pc = "returned" /\ verbose) =>
        \A i \in 1..Len(Rows) :
            /\ {"Gain", "Loss", "NetChange"} \subseteq DOMAIN Rows[i]
            /\ \A c \in Categories :
                   IF i = Len(Rows)
                   THEN /\ Rows[i].Gain[c] = Fl(0)
                        /\ Rows[i].Loss[c] = Fl(0)
                        /\ Rows[i].NetChange[c] = Fl(0)
                   ELSE Rows[i].NetChange[c] = FSub(Rows[i].Gain[c], Rows[i].Loss[c])

\* the savings flow of category c in the transition out of row i
FlowOf(i, c) ==
    IF c \in LiquidCategories /\ FLt(Fl(0), TotalLiquid(i))
    THEN FMul(Rows[i].AnnualSavings, FDiv(Rows[i].Assets[c], TotalLiquid(i)))
    ELSE Fl(0)

\* C9 (amended): with verbose true and a horizon years >= 1, every row
\* carries gain, loss and net change for every category; in a row y < years
\* the loss is the amount liquidated, the gain is the amount contributed
\* plus the appreciation (the amount after the flow times the rate), net
\* change = gain - loss, and in the last row all three are 0.  With
\* years = 0 the single year-0 row carries none of the three fields.
C9_GainLossFields ==
    (pc = "returned" /\ verbose) =>
        /\ years = 0 =>
               /\ Len(Rows) = 1
               /\ DOMAIN Rows[1] \cap {"Gain", "Loss", "NetChange"} = {}
        /\ years >= 1 =>
               \A i \in 1..Len(Rows) :
                   /\ {"Gain", "Loss", "NetChange"} \subseteq DOMAIN Rows[i]
                   /\ \A c \in Categories :
                          IF i = Len(Rows)
                          THEN /\ Rows[i].Gain[c] = Fl(0)
                               /\ Rows[i].Loss[c] = Fl(0)
                               /\ Rows[i].NetChange[c] = Fl(0)
                          ELSE LET flow == FlowOf(i, c)
                                   after == FAdd(Rows[i].Assets[c], flow)
                                   inflow == IF FLt(Fl(0), flow) THEN flow ELSE Fl(0)
                                   outflow == IF FLt(flow, Fl(0)) THEN FNeg(flow) ELSE Fl(0)
                               IN  /\ Rows[i].Loss[c] = outflow
                                   /\ Rows[i].Gain[c] = FAdd(inflow, FMul(after, Rate(c)))
                                   /\ Rows[i].NetChange[c] =
                                          FSub(Rows[i].Gain[c], Rows[i].Loss[c])

\* a verbose run of two years or more in which one transition books both a
\* loss and a non-zero appreciation
C9_Witness ==
    /\ pc = "returned" /\ verbose /\ years >= 2
    /\ \E i \in Transitions, c \in Categories :
           /\ FLt(Fl(0), Rows[i].Loss[c])
           /\ Rows[i].Gain[c] # Fl(0)
           /\ Rows[i].NetChange[c] # Fl(0)

\* C10 as stated: in a transition with non-zero savings S and total liquid
\* value L > 0, a liquid category ends at (a + S * a / L) * (1 + rate) and a
\* non-liquid one at a * (1 + rate), and the sum of the liquid amounts
\* changes by exactly S (seen in the next row when the liquid rates are 0).
C10_AsStated ==
    Projecting =>
        \A i \in Transitions :
            LET S == Rows[i].AnnualSavings
                L == TotalLiquid(i)
            IN  (S # Fl(0) /\ FLt(Fl(0), L)) =>
                    /\ \A c \in LiquidCategories :
                           Rows[i + 1].Assets[c] =
                               FMul(FAdd(Rows[i].Assets[c],
                                         FDiv(FMul(S, Rows[i].Assets[c]), L)),
                                    FAdd(Fl(1), Rate(c)))
                    /\ \A c \in Categories \ LiquidCategories :
                           Rows[i + 1].Assets[c] =
                               FMul(Rows[i].Assets[c], FAdd(Fl(1), Rate(c)))
                    /\ (\A c \in LiquidCategories : Rate(c) = Fl(0)) =>
                           TotalLiquid(i + 1) = FAdd(L, S)

\* the error bound of C10: (2n + 4) roundings of 2^-53 each, relative to
\* L + |S|, for n liquid categories
FlowTolerance(n, L, S) ==
    FMul(FMul(Fl(2 * n + 4), <<1, -53, HiMin, 0>>), FAdd(L, FAbs(S)))

\* C10 (amended): in a transition with non-zero savings S and total liquid
\* value L > 0, each liquid amount a changes by the float S * (a / L), a
\* liquid category ends at (a + S * (a / L)) * (1 + rate) and a non-liquid
\* one, which the flow does not touch, at a * (1 + rate); when no liquid
\* amount is negative the liquid amounts after the flow add up to L + S
\* within the rounding error, which is not always 0.
C10_ProportionalFlow ==
    Projecting =>
        \A i \in Transitions :
            LET S == Rows[i].AnnualSavings
                L == TotalLiquid(i)
                share(c) == FMul(S, FDiv(Rows[i].Assets[c], L))
                after == [c \in LiquidCategories |->
                             FAdd(Rows[i].Assets[c], share(c))]
            IN  (S # Fl(0) /\ FLt(Fl(0), L)) =>
                    /\ \A c \in LiquidCategories :
                           Rows[i + 1].Assets[c] =
                               FMul(after[c], FAdd(Fl(1), Rate(c)))
                    /\ \A c \in Categories \ LiquidCategories :
                           Rows[i + 1].Assets[c] =
                               FMul(Rows[i].Assets[c], FAdd(Fl(1), Rate(c)))
                    /\ (\A c \in LiquidCategories : FLeq(Fl(0), Rows[i].Assets[c])) =>
                           FLeq(FAbs(FSub(SumValues(after, LiquidKeys(planner)),
                                          FAdd(L, S))),
                                FlowTolerance(Cardinality(LiquidCategories), L, S))
                    /\ verbose =>
                           \A c \in Categories :
                               Rows[i].Loss[c] =
                                   IF c \in LiquidCategories /\ FLt(S, Fl(0))
                                   THEN FNeg(share(c)) ELSE Fl(0)

\* a finished run with non-zero savings flowing into liquid categories,
\* none of them negative, while a non-liquid category worth something is
\* left alone; the shares are rounded, and afterwards the liquid amounts do
\* not add up to L + S
C10_Witness ==
    /\ pc = "returned"
    /\ \E i \in Transitions :
           /\ FLt(Fl(0), TotalLiquid(i))
           /\ Rows[i].AnnualSavings # Fl(0)
           /\ \E c \in Categories \ LiquidCategories : Rows[i].Assets[c] # Fl(0)
           /\ \A c \in LiquidCategories :
                  FLt(Fl(0), Rows[i].Assets[c]) /\ Rate(c) = Fl(0)
           /\ TotalLiquid(i + 1) # FAdd(TotalLiquid(i), Rows[i].AnnualSavings)


(***************************************************************************)
(* The schedule lookups on their own: a planner is constructed and its two *)
(* lookups are called for a year.                                          *)
(***************************************************************************)
ScheduleKeys == {0, 5, 20}
QueryYears == {0, 4, 5, 6, 19, 20, 21, 100}
TaxRates == {FQ(1, 5), FQ(3, 10), FQ(2, 5)}
ExpenseEntries == {Expense(Fl(15), "kids"), Expense(Fl(0), "none")}

\* every dict from a set of ScheduleKeys to the values V
Dicts(V) == UNION {[K -> V] : K \in SUBSET ScheduleKeys}

ResolverArgs ==
    {PlannerArgs(Fl(6), Fl(2), Zero, Zero, t,
                 Allocation(<<"A">>, [A |-> [amount |-> Fl(4), rate |-> Zero,
                                             liquid |-> TRUE]]),
                 ad, NoneArg) :
        t \in {DictArg(m) : m \in Dicts(TaxRates)} \cup {FloatArg(FQ(3, 10))},
        ad \in {NoneArg, DictArg(5 :> Expense(Fl(15), "kids"))}}
    \cup
    {PlannerArgs(Fl(6), Fl(2), Zero, Zero, FloatArg(FQ(3, 10)),
                 Allocation(<<"A">>, [A |-> [amount |-> Fl(4), rate |-> Zero,
                                             liquid |-> TRUE]]),
                 DictArg(m), NoneArg) :
        m \in Dicts(ExpenseEntries)}

InitResolve ==
    /\ pc = "new"
    /\ args \in ResolverArgs
    /\ years = 0
    /\ verbose = FALSE
    /\ planner = NoPlanner
    /\ frame = NoFrame
    /\ call = NoCall
    /\ search = NoSearch
    /\ sum_compensated \in BOOLEAN

\* planner._get_tax_rate_for_year(year)
GetTaxRate ==
    /\ pc = "constructed"
    /\ \E year \in QueryYears :
           call' = [fn |-> "tax", year |-> year,
                    result |-> get_tax_rate_for_year(planner, year)]
    /\ UNCHANGED <<pc, args, years, verbose, planner, frame, search, sum_compensated>>

\* planner._get_additional_expense_for_year(year)
GetAdditionalExpense ==
    /\ pc = "constructed"
    /\ \E year \in QueryYears :
           call' = [fn |-> "expense", year |-> year,
                    result |-> get_additional_expense_for_year(planner, year)]
    /\ UNCHANGED <<pc, args, years, verbose, planner, frame, search, sum_compensated>>

NextResolve == Construct \/ GetTaxRate \/ GetAdditionalExpense

SpecResolve == InitResolve /\ [][NextResolve]_vars

\* the rule of C2: the rate at the greatest key <= year, and the rate at
\* the smallest key when the year precedes every key
C2_TaxLookup ==
    (call.fn = "tax" /\ planner.tax_rate.kind = "dict"
            /\ DOMAIN planner.tax_rate.map # {}) =>
        LET m == planner.tax_rate.map
        IN  /\ ~call.result.raised
            /\ \E k \in DOMAIN m :
                   /\ call.result.value = m[k]
                   /\ IF \E j \in DOMAIN m : j <= call.year
                      THEN /\ k <= call.year
                           /\ \A j \in DOMAIN m : j <= call.year => j <= k
                      ELSE \A j \in DOMAIN m : k <= j

\* the examples of C2: {0: 0.30, 20: 0.40} at 5, 20, 100 and {5: 0.20} at 0
C2_Examples ==
    LET m == planner.tax_rate.map
        is(dict, year, rate) ==
            (m = dict /\ call.year = year) => call.result = Return(rate)
    IN  (call.fn = "tax" /\ planner.tax_rate.kind = "dict") =>
            /\ is((0 :> FQ(3, 10)) @@ (20 :> FQ(2, 5)), 5, FQ(3, 10))
            /\ is((0 :> FQ(3, 10)) @@ (20 :> FQ(2, 5)), 20, FQ(2, 5))
            /\ is((0 :> FQ(3, 10)) @@ (20 :> FQ(2, 5)), 100, FQ(2, 5))
            /\ is(5 :> FQ(1, 5), 0, FQ(1, 5))

\* C2: for a non-empty tax mapping, the lookup returns the rate at the
\* greatest key <= year, and the rate at the smallest key (never a default
\* of zero) when the year precedes every key; {0: 0.30, 20: 0.40} gives
\* 0.30, 0.40, 0.40 for the years 5, 20, 100 and {5: 0.20} gives 0.20 for 0.
C2_TaxLookupAndExamples == C2_TaxLookup /\ C2_Examples

\* a lookup that skipped a later, inapplicable key and an earlier, older one
C2_Witness ==
    /\ call.fn = "tax" /\ planner.tax_rate.kind = "dict"
    /\ DOMAIN planner.tax_rate.map = {0, 5, 20}
    /\ call.year = 19
    /\ call.result = Return(planner.tax_rate.map[5])
    /\ planner.tax_rate.map[5] # planner.tax_rate.map[0]
    /\ planner.tax_rate.map[5] # planner.tax_rate.map[20]

\* C3 as stated: for a non-empty expense mapping and a year before every
\* key, the lookup returns the amount and description at the smallest key;
\* only an empty or absent mapping gives amount 0 and no description.
C3_AsStated ==
    call.fn = "expense" =>
        LET m == planner.additional_expenses
        IN  IF DOMAIN m = {} THEN call.result = <<Fl(0), "">>
            ELSE IF \E j \in DOMAIN m : j <= call.year
            THEN \E k \in DOMAIN m :
                     /\ k <= call.year
                     /\ \A j \in DOMAIN m : j <= call.year => j <= k
                     /\ call.result = <<m[k].amount, m[k].description>>
            ELSE \E k \in DOMAIN m :
                     /\ \A j \in DOMAIN m : k <= j
                     /\ call.result = <<m[k].amount, m[k].description>>

\* C3 (amended): the expense lookup returns the amount and description at
\* the greatest key <= year; for a year before every key, as for an empty or
\* absent mapping, it returns amount 0 and an empty description (unlike the
\* tax lookup, it does not fall back to the smallest key).
C3_ExpenseLookup ==
    call.fn = "expense" =>
        LET m == planner.additional_expenses
        IN  IF \E j \in DOMAIN m : j <= call.year
            THEN \E k \in DOMAIN m :
                     /\ k <= call.year
                     /\ \A j \in DOMAIN m : j <= call.year => j <= k
                     /\ call.result = <<m[k].amount, m[k].description>>
            ELSE call.result = <<Fl(0), "">>

\* a lookup for a year before every key of a mapping whose smallest key
\* holds a non-zero amount
C3_Witness ==
    /\ call.fn = "expense"
    /\ DOMAIN planner.additional_expenses = {5, 20}
    /\ planner.additional_expenses[5] = Expense(Fl(15), "kids")
    /\ call.year = 4
    /\ call.result = <<Fl(0), "">>


(***************************************************************************)
(* FinancialPlanner.summary: the projection, the key metrics and the       *)
(* die-with-zero search.                                                   *)
(***************************************************************************)
SearchAllocations ==
    {Allocation(<<"A">>, [A |-> [amount |-> a, rate |-> r, liquid |-> TRUE]]) :
        a \in {Fl(4), Fl(20)}, r \in {Zero, Half}}
    \cup
    {Allocation(<<"A", "B">>,
                [A |-> [amount |-> Fl(4), rate |-> Zero, liquid |-> TRUE],
                 B |-> b]) :
        b \in {[amount |-> Fl(6), rate |-> FNeg(Half), liquid |-> FALSE],
               [amount |-> FQ(11, 2), rate |-> Zero, liquid |-> FALSE],
               [amount |-> Fl(6), rate |-> Zero]}}

SearchArgs ==
    {PlannerArgs(i, e, rates[1], rates[2], t, al, ad, NoneArg) :
        i \in {Fl(0), Fl(6)}, e \in {Fl(2), Fl(8)},
        rates \in {<<Zero, Zero>>, <<Half, Half>>},
        t \in {FloatArg(Zero), DictArg((0 :> Zero) @@ (2 :> Fl(1))),
               DictArg(EmptyDict)},
        al \in SearchAllocations,
        ad \in {NoneArg, DictArg(2 :> Expense(Fl(4), "kid"))}}

\* allocations that are used up at the horizon in exact arithmetic, while
\* the floats end a rounding error above or below zero
SearchRoundingArgs ==
    {PlannerArgs(i, x[1], Zero, Zero, FloatArg(Zero), x[2], NoneArg, NoneArg) :
        i \in {Fl(0), Fl(6)},
        x \in {<<Fl(4), Allocation(<<"A", "B">>,
                            [A |-> [amount |-> Fl(5), rate |-> Zero, liquid |-> TRUE],
                             B |-> [amount |-> Fl(7), rate |-> Zero]])>>,
               <<FQ(1, 5), Allocation(<<"A", "B">>,
                               [A |-> [amount |-> FQ(1, 5), rate |-> FNeg(Half),
                                       liquid |-> TRUE],
                                B |-> [amount |-> Fl(1), rate |-> FNeg(Half)]])>>,
               <<FQ(3, 10), Allocation(<<"A", "B">>,
                                [A |-> [amount |-> FQ(1, 10), rate |-> Zero,
                                        liquid |-> TRUE],
                                 B |-> [amount |-> FQ(1, 5), rate |-> Zero]])>>,
               <<FQ(3, 10), UnsortedAllocation>>}}

InitSummary ==
    /\ pc = "new"
    /\ args \in SearchArgs \cup SearchRoundingArgs
    /\ years \in 0..MaxYears
    /\ verbose = FALSE
    /\ planner = NoPlanner
    /\ frame = NoFrame
    /\ call = NoCall
    /\ search = NoSearch
    /\ sum_compensated \in BOOLEAN

\* lines 301-365: the projection is made and printed, then the key metrics;
\* the CAGR exponent 1/years divides by zero when years = 0
KeyMetrics(df, yrs) ==
    IF df.raised = "" /\ yrs = 0
    THEN [df EXCEPT !.raised = "ZeroDivisionError"]
    ELSE df

SummaryProject ==
    /\ pc = "constructed"
    /\ frame' = KeyMetrics(project(planner, years, verbose), years)
    /\ pc' = IF frame'.raised # "" THEN "raised" ELSE "metrics"
    /\ UNCHANGED <<args, years, verbose, planner, call, search, sum_compensated>>

\* lines 372-383: the stop-now baseline
Baseline(final_worth_no_income) ==
    [final_worth_no_income |-> final_worth_no_income,
     best_year   |-> 0,
     best_diff   |-> FAbs(final_worth_no_income),
     retire_year |-> 0,
     evaluated   |-> <<>>,
     broke       |-> FALSE]

SummaryBaseline ==
    /\ pc = "metrics"
    /\ search' = Baseline(FinalNetWorth(project_with_zero_income(planner, years, 0)))
    /\ pc' = "scan"
    /\ UNCHANGED <<args, years, verbose, planner, frame, call, sum_compensated>>

\* a plausible slip: a tie replaces the best year (<= for <)
Improves_onTie(diff, best_diff) == FLeq(diff, best_diff)

\* line 390
Improves(diff, best_diff) == FLt(diff, best_diff)

\* line 395
GoneTooFar(final_worth) == FLt(final_worth, Fl(0))

\* lines 388-396: the candidate retire_year, whose projection ends with
\* final_worth, is compared with the best year so far
Candidate(s, retire_year, final_worth) ==
    [s EXCEPT
        !.retire_year = retire_year,
        !.evaluated = Append(@, retire_year),
        !.best_diff = IF Improves(FAbs(final_worth), @) THEN FAbs(final_worth) ELSE @,
        !.best_year = IF Improves(FAbs(final_worth), s.best_diff)
                      THEN retire_year ELSE @,
        !.broke = GoneTooFar(final_worth)]

\* one iteration of `for retire_year in range(1, years + 1)`, lines 385-396
SummaryCandidate ==
    /\ pc = "scan"
    /\ ~search.broke
    /\ search.retire_year < years
    /\ search' = Candidate(search, search.retire_year + 1,
                           FinalNetWorth(project_with_zero_income(
                               planner, years, search.retire_year + 1)))
    /\ UNCHANGED <<pc, args, years, verbose, planner, frame, call, sum_compensated>>

\* lines 398-406, after the loop has ended or was left by `break`
SummaryReport ==
    /\ pc = "scan"
    /\ search.broke \/ search.retire_year = years
    /\ pc' = "done"
    /\ UNCHANGED <<args, years, verbose, planner, frame, call, search, sum_compensated>>

NextSummary ==
    Construct \/ SummaryProject \/ SummaryBaseline \/ SummaryCandidate \/ SummaryReport

SpecSummary == InitSummary /\ [][NextSummary]_vars

\* F(r): the final-year total net worth when income stops at year r
F(r) == FinalNetWorth(project_with_zero_income(planner, years, r))

\* C4: the retirement year the search selects ends with a final net worth
\* that is not below zero.  Stated for the years summary reports as found
\* ("Stop working at year ..."), i.e. best_year > 0.
C4_SelectedNotBelowZero ==
    (pc = "done" /\ search.best_year > 0) => FLeq(Fl(0), F(search.best_year))

\* k: the first candidate in 1..years whose final net worth is negative,
\* years if there is none (fs[r] is F(r))
FirstNegative(fs) ==
    IF \E r \in 1..years : FLt(fs[r], Fl(0))
    THEN MinOf({r \in 1..years : FLt(fs[r], Fl(0))})
    ELSE years

\* C5: the search evaluates the candidates 1..k in increasing order and
\* none beyond k, and selects the smallest r in 0..k that minimises |F(r)|.
C5_SearchResult ==
    pc = "done" =>
        LET fs == [r \in 0..years |-> F(r)]
            k == FirstNegative(fs)
            best == search.best_year
        IN  /\ search.evaluated = [i \in 1..k |-> i]
            /\ best \in 0..k
            /\ \A r \in 0..k : FLeq(FAbs(fs[best]), FAbs(fs[r]))
            /\ \A r \in 0..k : FAbs(fs[r]) = FAbs(fs[best]) => best <= r
            /\ search.best_diff = FAbs(fs[best])

\* a search that was left at a negative candidate before the horizon, had
\* selected a later year than 0, and had met a tie on the way
C5_Witness ==
    /\ pc = "done"
    /\ FirstNegative([r \in 0..years |-> F(r)]) < years
    /\ search.best_year > 1
    /\ FAbs(F(1)) = FAbs(F(0))



\* C11: year-0 income never reaches the portfolio: for a horizon >= 1 the
\* projection with income stopped from year 1 has, in every row, the same
\* per-category asset amounts and the same total net worth as the one with
\* income stopped from year 0, so candidate 1 never strictly improves on the
\* stop-now baseline and the search never selects retirement year 1.
C11_YearOneSameAsNow ==
    (pc \in {"scan", "done"} /\ search.retire_year >= 1) =>
        LET frame0 == project_with_zero_income(planner, years, 0)
            frame1 == project_with_zero_income(planner, years, 1)
            now == frame0.results
            one == frame1.results
        IN  /\ years >= 1
            /\ Len(one) = years + 1
            /\ Len(now) = years + 1
            /\ \A i \in 1..(years + 1) :
                   /\ one[i].Assets = now[i].Assets
                   /\ one[i].TotalNetWorth = now[i].TotalNetWorth
            /\ ~Improves(FAbs(FinalNetWorth(frame1)), FAbs(FinalNetWorth(frame0)))
            /\ search.best_year # 1

\* a finished search over a planner with income and a liquid category worth
\* something, in which the year-0 rows of the two projections differ in
\* gross income, candidate 1 was evaluated and a later year was selected
C11_Witness ==
    /\ pc = "done"
    /\ planner.initial_gross_income # Fl(0)
    /\ \E c \in DOMAIN planner.asset_allocation :
           IsLiquid(planner, c) /\ planner.asset_allocation[c].amount # Fl(0)
    /\ project_with_zero_income(planner, years, 1).results[1].GrossIncome
           # project_with_zero_income(planner, years, 0).results[1].GrossIncome
    /\ search.evaluated # <<>>
    /\ search.evaluated[1] = 1
    /\ search.best_year > 1

====
